---- MODULE Spec2Model ----
(***************************************************************************)
(* Room booking: time-window validation, conflict detection and the        *)
(* booking status life cycle of booking_system/bookings (forms.py,         *)
(* models.py, views.py, decorators.py).                                    *)
(*                                                                         *)
(* Instants are minutes of local wall-clock time counted from 00:00 of     *)
(* day 0, so 09:30 of day 1 is 1440 + 570.  Only POST requests are         *)
(* modelled: a GET of any of the views renders a page and writes nothing.  *)
(***************************************************************************)
EXTENDS Integers, Sequences, FiniteSets, TLC

\* now       the reading of timezone.now()
\* rooms     the ConferenceRoom table, by primary key
\* bookings  the Booking table, by primary key
\* history   the BookingHistory table: the entries of each booking, oldest first
\* next_id   the primary key the next Booking row gets
\* last      the response to the request handled last
\* requests  the requests in flight, by the worker that handles them
VARIABLES now, rooms, bookings, history, next_id, last, requests

vars == <<now, rooms, bookings, history, next_id, last, requests>>

(***************************************************************************)
(* Bounds of the model.                                                    *)
(***************************************************************************)
\* Booking rows ever inserted (primary keys 1..MaxBookings).
MaxBookings == 2

(***************************************************************************)
(* Configuration and fixed data.                                           *)
(***************************************************************************)
\* settings.BOOKING_SETTINGS: the settings module is not part of the source
\* tree; the values are the documented defaults (07:00-16:30, 30..480 minutes),
\* two hours of cancellation deadline and a one-day booking horizon.
BOOKING_SETTINGS ==
    [ BOOKING_START_HOUR          |-> 7,
      BOOKING_END_HOUR            |-> 16,
      BOOKING_END_MINUTE          |-> 30,
      MIN_BOOKING_DURATION        |-> 30,
      MAX_BOOKING_DURATION        |-> 480,
      MAX_ADVANCE_BOOKING_DAYS    |-> 1,
      CANCELLATION_DEADLINE_HOURS |-> 2 ]

\* User.role of the users that send requests.
ROLE_CHOICES == {"moderator", "requester", "employee"}
User == [ alice |-> "requester", bob |-> "requester",
          mod |-> "moderator", emp |-> "employee" ]
Users == DOMAIN User
None == "none"

RoomIds == {1, 2}

STATUS_CHOICES == {"pending", "approved", "rejected", "cancelled"}

\* BookingHistory.ACTION_CHOICES
ACTION_CHOICES == {"created", "updated", "approved", "rejected", "cancelled"}

\* datetime.hour, datetime.minute, datetime.date() and timedelta.
MinutesPerDay == 24 * 60
hour(t) == (t % MinutesPerDay) \div 60
minute(t) == t % 60
date(t) == t \div MinutesPerDay
timedelta(days, hours, minutes) == days * MinutesPerDay + hours * 60 + minutes

(***************************************************************************)
(* Queries.                                                                *)
(***************************************************************************)
\* ConferenceRoom.objects.filter(is_active=True)
ActiveRooms == {r \in DOMAIN rooms : rooms[r].is_active}

\* The mutant of OverlapFilter that takes touching intervals as overlapping.
OverlapFilterClosed(room, statuses, lt_end, gt_start) ==
    {id \in DOMAIN bookings :
        /\ bookings[id].room = room
        /\ bookings[id].status \in statuses
        /\ bookings[id].start_time <= lt_end
        /\ bookings[id].end_time >= gt_start}

\* Booking.objects.filter(room=room, status__in=statuses,
\*                        start_time__lt=lt_end, end_time__gt=gt_start)
OverlapFilter(room, statuses, lt_end, gt_start) ==
    {id \in DOMAIN bookings :
        /\ bookings[id].room = room
        /\ bookings[id].status \in statuses
        /\ bookings[id].start_time < lt_end
        /\ bookings[id].end_time > gt_start}

(***************************************************************************)
(* BookingForm.clean and the checks of create_booking.                     *)
(***************************************************************************)
\* The mutant of EndsAfterWorkingDay that shuts the day one minute early.
EndsAfterWorkingDayEarly(end_time) ==
    \/ hour(end_time) > BOOKING_SETTINGS.BOOKING_END_HOUR
    \/ /\ hour(end_time) = BOOKING_SETTINGS.BOOKING_END_HOUR
       /\ minute(end_time) >= BOOKING_SETTINGS.BOOKING_END_MINUTE

\* The end-of-day test of BookingForm.clean.
EndsAfterWorkingDay(end_time) ==
    \/ hour(end_time) > BOOKING_SETTINGS.BOOKING_END_HOUR
    \/ /\ hour(end_time) = BOOKING_SETTINGS.BOOKING_END_HOUR
       /\ minute(end_time) > BOOKING_SETTINGS.BOOKING_END_MINUTE

\* The mutant of create_conflicts that leaves pending bookings out.
create_conflicts_approved_only(room, start_time, end_time) ==
    OverlapFilter(room, {"approved"}, end_time, start_time)

\* The mutant of create_conflicts that counts bookings of every status.
create_conflicts_any_status(room, start_time, end_time) ==
    OverlapFilter(room, STATUS_CHOICES, end_time, start_time)

\* BookingForm.clean: the bookings that occupy the room in the interval.
create_conflicts(room, start_time, end_time) ==
    OverlapFilter(room, {"pending", "approved"}, end_time, start_time)

\* The mutant of clean that tests the order of start and end first.
clean_end_first(room, start_time, end_time) ==
    IF start_time >= end_time THEN "InvalidInterval"
    ELSE IF start_time < now THEN "PastDate"
    ELSE IF end_time - start_time
              < timedelta(0, 0, BOOKING_SETTINGS.MIN_BOOKING_DURATION)
         THEN "MinDuration"
    ELSE IF end_time - start_time
              > timedelta(0, 0, BOOKING_SETTINGS.MAX_BOOKING_DURATION)
         THEN "MaxDuration"
    ELSE IF hour(start_time) < BOOKING_SETTINGS.BOOKING_START_HOUR
         THEN "StartHour"
    ELSE IF EndsAfterWorkingDay(end_time) THEN "EndTime"
    ELSE IF /\ room \in ActiveRooms
            /\ create_conflicts(room, start_time, end_time) # {}
         THEN "ConflictDetected"
    ELSE "ok"

\* BookingForm.clean: the first ValidationError raised, or "ok".
clean(room, start_time, end_time) ==
    IF start_time < now THEN "PastDate"
    ELSE IF start_time >= end_time THEN "InvalidInterval"
    ELSE IF end_time - start_time
              < timedelta(0, 0, BOOKING_SETTINGS.MIN_BOOKING_DURATION)
         THEN "MinDuration"
    ELSE IF end_time - start_time
              > timedelta(0, 0, BOOKING_SETTINGS.MAX_BOOKING_DURATION)
         THEN "MaxDuration"
    ELSE IF hour(start_time) < BOOKING_SETTINGS.BOOKING_START_HOUR
         THEN "StartHour"
    ELSE IF EndsAfterWorkingDay(end_time) THEN "EndTime"
    ELSE IF /\ room \in ActiveRooms
            /\ create_conflicts(room, start_time, end_time) # {}
         THEN "ConflictDetected"
    ELSE "ok"

\* The mutant of is_valid that takes any room.
is_valid_any_room(room, start_time, end_time) ==
    clean(room, start_time, end_time)

\* form.is_valid(): the room must be one of the active rooms (the queryset of
\* the room field), then clean() runs; the room's field error comes first.
is_valid(room, start_time, end_time) ==
    IF room \notin ActiveRooms THEN "RoomInactive"
    ELSE clean(room, start_time, end_time)

\* The mutant of view_checks that knows no booking horizon.
view_checks_no_horizon(start_time) ==
    IF start_time < now THEN "PastDate" ELSE "ok"

\* The checks create_booking makes on the valid form before it saves.
view_checks(start_time) ==
    IF start_time < now THEN "PastDate"
    ELSE IF start_time
              > now + timedelta(BOOKING_SETTINGS.MAX_ADVANCE_BOOKING_DAYS, 0, 0)
         THEN "AdvanceLimitExceeded"
    ELSE "ok"

\* What a create request is answered with: the first failure, or "ok".
create_result(room, start_time, end_time) ==
    IF is_valid(room, start_time, end_time) # "ok"
    THEN is_valid(room, start_time, end_time)
    ELSE view_checks(start_time)

(***************************************************************************)
(* Rows.                                                                   *)
(***************************************************************************)
\* A Booking row as BookingForm.save(commit=False) and the model defaults
\* build it.
NewBooking(user, room, start_time, end_time) ==
    [ room               |-> room,
      requester          |-> user,
      start_time         |-> start_time,
      end_time           |-> end_time,
      status             |-> "pending",
      moderated_by       |-> None,
      moderation_comment |-> "" ]

NoDetails == [ room |-> 0, comment |-> "", old_status |-> "" ]

\* BookingHistory.objects.create(booking=..., user=..., action=..., details=...)
HistoryEntry(user, action, details) ==
    [ user |-> user, action |-> action, details |-> details ]

\* The response to a request: the view, the booking it concerned, the outcome,
\* the `conflicts` the page is rendered with and the rest of the template
\* context of a page that lists bookings or history entries.
Response(op, id, result) ==
    [ op |-> op, id |-> id, result |-> result, conflicts |-> {},
      context |-> << >> ]

(***************************************************************************)
(* The views, each handled as one step.                                    *)
(***************************************************************************)
\* views.create_booking (POST), under requester_required.
create_booking(user, room, start_time, end_time) ==
    LET result == IF User[user] # "requester" THEN "Forbidden"
                  ELSE create_result(room, start_time, end_time)
    IN  /\ last' = Response("create", IF result = "ok" THEN next_id ELSE 0, result)
        /\ IF result = "ok"
           THEN /\ next_id <= MaxBookings
                /\ bookings' = (next_id :> NewBooking(user, room, start_time, end_time))
                                  @@ bookings
                /\ history' = (next_id :>
                                  << HistoryEntry(user, "created",
                                        [NoDetails EXCEPT !.room = room]) >>)
                                  @@ history
                /\ next_id' = next_id + 1
           ELSE UNCHANGED <<bookings, history, next_id>>
        /\ UNCHANGED <<now, rooms>>

\* The mutant of approve_check that takes touching intervals as overlapping.
approve_check_closed(id) ==
    IF OverlapFilterClosed(bookings[id].room, {"approved"},
                           bookings[id].end_time, bookings[id].start_time) # {}
    THEN "ConflictDetected"
    ELSE IF bookings[id].start_time < now THEN "PastDate"
    ELSE "ok"

\* The mutant of approve_check that approves a booking that has started.
approve_check_no_past(id) ==
    IF OverlapFilter(bookings[id].room, {"approved"},
                     bookings[id].end_time, bookings[id].start_time) # {}
    THEN "ConflictDetected"
    ELSE "ok"

\* moderate_booking, action 'approve': the checks before the status is set.
approve_check(id) ==
    IF OverlapFilter(bookings[id].room, {"approved"},
                     bookings[id].end_time, bookings[id].start_time) # {}
    THEN "ConflictDetected"
    ELSE IF bookings[id].start_time < now THEN "PastDate"
    ELSE "ok"

\* The mutant of reject_check that asks for no comment.
reject_check_any_comment(comment) == "ok"

\* moderate_booking, action 'reject': the comment is required.
reject_check(comment) ==
    IF comment = "" THEN "MissingRejectionComment" ELSE "ok"

\* The status a moderation action sets.
moderated_status(action) ==
    IF action = "approve" THEN "approved" ELSE "rejected"

\* moderate_booking, on a conflict: the approved bookings of the room that
\* overlap the booking, .exclude(id=booking.id).
approve_conflicts(id) ==
    OverlapFilter(bookings[id].room, {"approved"},
                  bookings[id].end_time, bookings[id].start_time) \ {id}

\* The mutant of moderate_result that loads a booking of any status.
moderate_result_any_status(user, id, action, comment) ==
    IF User[user] # "moderator" THEN "Forbidden"
    ELSE IF id \notin DOMAIN bookings THEN "NotFound"
    ELSE IF action = "approve" THEN approve_check(id)
    ELSE reject_check(comment)

\* The mutant of moderate_result that lets every user moderate.
moderate_result_any_role(user, id, action, comment) ==
    IF ~(id \in DOMAIN bookings /\ bookings[id].status = "pending")
    THEN "NotFound"
    ELSE IF action = "approve" THEN approve_check(id)
    ELSE reject_check(comment)

\* moderate_booking: moderator_required, then
\* get_object_or_404(Booking, id=booking_id, status='pending'), then the checks
\* of the action.
moderate_result(user, id, action, comment) ==
    IF User[user] # "moderator" THEN "Forbidden"
    ELSE IF ~(id \in DOMAIN bookings /\ bookings[id].status = "pending")
         THEN "NotFound"
    ELSE IF action = "approve" THEN approve_check(id)
    ELSE reject_check(comment)

\* views.moderate_booking (POST with a valid ModerationForm), under
\* moderator_required.
moderate_booking(user, id, action, comment) ==
    LET result == moderate_result(user, id, action, comment)
    IN  /\ last' = [ Response(action, id, result) EXCEPT
                       !.conflicts = IF result = "ConflictDetected"
                                     THEN approve_conflicts(id) ELSE {} ]
        /\ IF result = "ok"
           THEN /\ bookings' = [bookings EXCEPT
                                   ![id].status = moderated_status(action),
                                   ![id].moderated_by = user,
                                   ![id].moderation_comment = comment]
                /\ history' = [history EXCEPT
                                   ![id] = Append(@, HistoryEntry(user, action,
                                       [NoDetails EXCEPT !.comment = comment]))]
           ELSE UNCHANGED <<bookings, history>>
        /\ UNCHANGED <<now, rooms, next_id>>

\* The mutant of cancel_check that cancels a booking of any status.
cancel_check_any_status(b) ==
    IF /\ b.status = "approved"
       /\ b.start_time
            < now + timedelta(0, BOOKING_SETTINGS.CANCELLATION_DEADLINE_HOURS, 0)
    THEN "CancellationWindowClosed"
    ELSE "ok"

\* The mutant of cancel_check that shuts the window at the deadline itself.
cancel_check_closed_deadline(b) ==
    IF b.status \notin {"pending", "approved"} THEN "InvalidTransition"
    ELSE IF /\ b.status = "approved"
            /\ b.start_time
                 <= now + timedelta(0, BOOKING_SETTINGS.CANCELLATION_DEADLINE_HOURS, 0)
         THEN "CancellationWindowClosed"
    ELSE "ok"

\* The checks of cancel_booking on the loaded booking.
cancel_check(b) ==
    IF b.status \notin {"pending", "approved"} THEN "InvalidTransition"
    ELSE IF /\ b.status = "approved"
            /\ b.start_time
                 < now + timedelta(0, BOOKING_SETTINGS.CANCELLATION_DEADLINE_HOURS, 0)
         THEN "CancellationWindowClosed"
    ELSE "ok"

\* views.cancel_booking (POST), under requester_required.
cancel_booking(user, id) ==
    LET result ==
            IF User[user] # "requester" THEN "Forbidden"
            ELSE IF ~(id \in DOMAIN bookings /\ bookings[id].requester = user)
                 THEN "NotFound"
            ELSE cancel_check(bookings[id])
    IN  /\ last' = Response("cancel", id, result)
        /\ IF result = "ok"
           THEN /\ bookings' = [bookings EXCEPT ![id].status = "cancelled"]
                /\ history' = [history EXCEPT
                                   ![id] = Append(@, HistoryEntry(user, "cancelled",
                                       [NoDetails EXCEPT
                                           !.old_status = bookings[id].status]))]
           ELSE UNCHANGED <<bookings, history>>
        /\ UNCHANGED <<now, rooms, next_id>>

\* views.edit_room (POST with a valid RoomForm), under moderator_required:
\* form.save() writes the room's fields, of which is_active matters here.
edit_room(user, room, is_active) ==
    LET result == IF User[user] # "moderator" THEN "Forbidden"
                  ELSE IF room \notin DOMAIN rooms THEN "NotFound"
                  ELSE "ok"
    IN  /\ last' = Response("edit_room", room, result)
        /\ IF result = "ok"
           THEN rooms' = [rooms EXCEPT ![room].is_active = is_active]
           ELSE UNCHANGED rooms
        /\ UNCHANGED <<now, bookings, history, next_id>>

\* delete_room: Booking.objects.filter(room=room, status='approved',
\*                                     start_time__gte=timezone.now()).exists()
has_future_bookings(room) ==
    \E id \in DOMAIN bookings :
        /\ bookings[id].room = room
        /\ bookings[id].status = "approved"
        /\ bookings[id].start_time >= now

\* room.delete(): the row goes, and with it (on_delete=CASCADE) the bookings of
\* the room and the history entries of those bookings.
CascadeDelete(room) ==
    LET kept == {id \in DOMAIN bookings : bookings[id].room # room}
    IN  /\ rooms' = [r \in DOMAIN rooms \ {room} |-> rooms[r]]
        /\ bookings' = [id \in kept |-> bookings[id]]
        /\ history' = [id \in DOMAIN history \cap kept |-> history[id]]

\* views.delete_room (POST), under moderator_required.
delete_room(user, room) ==
    LET result == IF User[user] # "moderator" THEN "Forbidden"
                  ELSE IF room \notin DOMAIN rooms THEN "NotFound"
                  ELSE IF has_future_bookings(room) THEN "HasFutureBookings"
                  ELSE "ok"
    IN  /\ last' = Response("delete_room", room, result)
        /\ IF result = "ok"
           THEN CascadeDelete(room)
           ELSE UNCHANGED <<rooms, bookings, history>>
        /\ UNCHANGED <<now, next_id>>

(***************************************************************************)
(* Inputs.                                                                 *)
(***************************************************************************)
\* The readings of timezone.now(): 07:00, 08:00 and 09:30 of day 0.
Clock == {420, 480, 570}

\* The intervals requested, as <<start_time, end_time>>.
Intervals ==
    { <<540, 600>>,    \* 09:00-10:00
      <<570, 630>>,    \* 09:30-10:30, overlaps 09:00-10:00
      <<600, 660>>,    \* 10:00-11:00, touches 09:00-10:00
      <<840, 900>>,    \* 14:00-15:00
      <<420, 990>>,    \* 07:00-16:30, longer than the maximum
      <<510, 990>>,    \* 08:30-16:30, the maximum duration
      <<600, 540>>,    \* ends before it starts
      <<540, 540>>,    \* empty
      <<540, 550>>,    \* shorter than the minimum
      <<1830, 1890>>,  \* 06:30-07:30 of day 1, starts before the working day
      <<1830, 2460>>,  \* 06:30-17:00 of day 1, too long, too early, too late
      <<930, 991>>,    \* 15:30-16:31, ends after the working day
      <<960, 1020>>,   \* 16:00-17:00, ends after the working day
      <<1200, 1680>>,  \* 20:00-04:00 of the next day
      <<1980, 2040>>,  \* 09:00-10:00 of day 1
      <<1980, 1990>>,  \* day 1, shorter than the minimum
      <<2040, 1980>> } \* day 1, ends before it starts

\* The slot the other requesters ask for: room 1, 09:00-10:00.
BaseSlot == [ room |-> 1, start_time |-> 540, end_time |-> 600 ]

\* The request in flight asks for any of the intervals in the room of the base
\* slot, or for an interval at the time of the base slot in another room.
Probes ==
    { <<BaseSlot.room, iv>> : iv \in Intervals }
    \cup { <<room, iv>> : room \in RoomIds \ {BaseSlot.room},
                          iv \in { <<540, 600>>, <<570, 630>>, <<600, 540>> } }

\* The handler's `booking` before it has loaded or built one.
NoBooking == NewBooking(None, 0, 0, 0)

\* A request in flight: what was asked (a create of an interval of a room, or a
\* moderation of booking id with its comment), where its handling stands (pc), the handler's
\* reading of the clock, its local `booking` and its outcome.
Request(op, user, room, start_time, end_time, id) ==
    [ op |-> op, user |-> user, room |-> room,
      start_time |-> start_time, end_time |-> end_time, id |-> id,
      comment |-> "", pc |-> "ready", current_time |-> 0, booking |-> NoBooking, result |-> "" ]

Init ==
    /\ now = 420
    /\ rooms = [r \in RoomIds |-> [is_active |-> TRUE]]
    /\ bookings = << >>
    /\ history = << >>
    /\ next_id = 1
    /\ last = Response("none", 0, "ok")
    /\ \E p \in Probes :
          requests = [w \in {1} |->
                         Request("create", "alice", p[1], p[2][1], p[2][2], 0)]

\* Time passes between requests.
Tick ==
    /\ \E t \in Clock :
          /\ t > now
          /\ \A u \in Clock : u > now => t <= u
          /\ now' = t
    /\ UNCHANGED <<rooms, bookings, history, next_id, last, requests>>

\* The request in flight is handled.
Submit ==
    /\ requests[1].pc = "ready"
    /\ create_booking(requests[1].user, requests[1].room,
                      requests[1].start_time, requests[1].end_time)
    /\ requests' = [requests EXCEPT ![1].pc = "done",
                                    ![1].current_time = now,
                                    ![1].result = last'.result]

\* Another requester asks for the base slot.
Create ==
    /\ create_booking("alice", BaseSlot.room, BaseSlot.start_time,
                      BaseSlot.end_time)
    /\ UNCHANGED requests

\* The moderator approves without a comment, or rejects with or without one.
Moderate ==
    /\ \E id \in 1..MaxBookings :
          \/ moderate_booking("mod", id, "approve", "")
          \/ \E comment \in {"", "no projector"} :
                moderate_booking("mod", id, "reject", comment)
    /\ UNCHANGED requests

Cancel ==
    /\ \E id \in 1..MaxBookings : cancel_booking("alice", id)
    /\ UNCHANGED requests

\* The moderator switches the room of the base slot off or on.
EditRoom ==
    /\ \E is_active \in BOOLEAN : edit_room("mod", BaseSlot.room, is_active)
    /\ UNCHANGED requests

\* The moderator deletes the room of the base slot.
DeleteRoom ==
    /\ delete_room("mod", BaseSlot.room)
    /\ UNCHANGED requests

Next ==
    Submit \/ Create \/ Moderate \/ Cancel \/ EditRoom \/ DeleteRoom \/ Tick

Spec == Init /\ [][Next]_vars

(***************************************************************************)
(* The views as the server runs them: each query and each save is a        *)
(* statement of its own (no view opens a transaction or locks a row), and  *)
(* the statements of two requests handled by two workers interleave.       *)
(***************************************************************************)
Workers == {1, 2}

\* The slots the racing requests ask for: 09:00-10:00 and 09:30-10:30, room 1.
RaceRoom == BaseSlot.room
RaceIntervals == { <<540, 600>>, <<570, 630>> }

Idle == [ Request("none", None, 0, 0, 0, 0) EXCEPT !.pc = "idle" ]

\* The worker's request is answered.
Answer(w, result) ==
    /\ requests' = [requests EXCEPT ![w].pc = "done", ![w].result = result]
    /\ last' = Response(requests[w].op, requests[w].id, result)

\* The worker's approve is answered with the page that lists the conflicts.
AnswerConflicts(w, conflicts) ==
    /\ requests' = [requests EXCEPT ![w].pc = "done",
                                    ![w].result = "ConflictDetected"]
    /\ last' = [ Response(requests[w].op, requests[w].id, "ConflictDetected")
                 EXCEPT !.conflicts = conflicts ]

InitRace ==
    /\ now = 420
    /\ rooms = [r \in RoomIds |-> [is_active |-> TRUE]]
    /\ bookings = << >>
    /\ history = << >>
    /\ next_id = 1
    /\ last = Response("none", 0, "ok")
    /\ requests = [w \in Workers |-> Idle]

\* A worker takes a request: a create by alice, or an approve or the deletion
\* of the room by the moderator.
Receive(w) ==
    /\ requests[w].pc \in {"idle", "done"}
    /\ \/ \E iv \in RaceIntervals :
             requests' = [requests EXCEPT
                 ![w] = Request("create", "alice", RaceRoom, iv[1], iv[2], 0)]
       \/ \E id \in 1..MaxBookings :
             requests' = [requests EXCEPT
                 ![w] = Request("approve", "mod", 0, 0, 0, id)]
       \/ requests' = [requests EXCEPT
               ![w] = Request("delete_room", "mod", RaceRoom, 0, 0, 0)]
    /\ UNCHANGED <<now, rooms, bookings, history, next_id, last>>

\* create_booking: requester_required and form.is_valid(), which runs the
\* conflict query of BookingForm.clean.
CreateValidate(w) ==
    LET r == requests[w]
        result == IF User[r.user] # "requester" THEN "Forbidden"
                  ELSE is_valid(r.room, r.start_time, r.end_time)
    IN  /\ r.op = "create" /\ r.pc = "ready"
        /\ IF result = "ok"
           THEN /\ requests' = [requests EXCEPT
                       ![w].pc = "valid",
                       ![w].current_time = now,
                       ![w].booking = NewBooking(r.user, r.room, r.start_time,
                                                 r.end_time)]
                /\ UNCHANGED last
           ELSE Answer(w, result)
        /\ UNCHANGED <<now, rooms, bookings, history, next_id>>

\* create_booking: the checks of the view, then booking.save() inserts the row;
\* the insert fails on the foreign key when the room has been deleted meanwhile.
CreateSave(w) ==
    LET r == requests[w]
        result == view_checks(r.start_time)
    IN  /\ r.op = "create" /\ r.pc = "valid"
        /\ IF result = "ok" /\ r.room \notin DOMAIN rooms
           THEN /\ Answer(w, "IntegrityError")
                /\ UNCHANGED <<bookings, history, next_id>>
           ELSE IF result = "ok"
           THEN /\ next_id <= MaxBookings
                /\ bookings' = (next_id :> r.booking) @@ bookings
                /\ history' = (next_id :> << >>) @@ history
                /\ next_id' = next_id + 1
                /\ requests' = [requests EXCEPT ![w].pc = "saved",
                                                ![w].id = next_id]
                /\ UNCHANGED last
           ELSE /\ Answer(w, result)
                /\ UNCHANGED <<bookings, history, next_id>>
        /\ UNCHANGED <<now, rooms>>

\* create_booking: BookingHistory.objects.create(action='created'); the insert
\* fails on the foreign key when the booking has been deleted meanwhile.
CreateHistory(w) ==
    LET r == requests[w]
    IN  /\ r.op = "create" /\ r.pc = "saved"
        /\ IF r.id \in DOMAIN bookings
           THEN /\ history' = [history EXCEPT
                      ![r.id] = Append(@, HistoryEntry(r.user, "created",
                                          [NoDetails EXCEPT !.room = r.room]))]
                /\ Answer(w, "ok")
           ELSE /\ Answer(w, "IntegrityError")
                /\ UNCHANGED history
        /\ UNCHANGED <<now, rooms, bookings, next_id>>

\* moderate_booking: moderator_required and
\* get_object_or_404(Booking, id=booking_id, status='pending').
ModerateLoad(w) ==
    LET r == requests[w]
        result == IF User[r.user] # "moderator" THEN "Forbidden"
                  ELSE IF ~(r.id \in DOMAIN bookings
                            /\ bookings[r.id].status = "pending")
                       THEN "NotFound"
                  ELSE "ok"
    IN  /\ r.op \in {"approve", "reject"} /\ r.pc = "ready"
        /\ IF result = "ok"
           THEN /\ requests' = [requests EXCEPT ![w].pc = "loaded",
                                                ![w].booking = bookings[r.id]]
                /\ UNCHANGED last
           ELSE Answer(w, result)
        /\ UNCHANGED <<now, rooms, bookings, history, next_id>>

\* The mutant of conflicting that finds no conflict.
conflicting_none(b) == FALSE

\* moderate_booking, action 'approve': the .exists() query on the approved
\* bookings of the room that overlap the loaded booking.
conflicting(b) ==
    OverlapFilter(b.room, {"approved"}, b.end_time, b.start_time) # {}

\* moderate_booking, action 'approve': the conflict query and the test of the
\* start time; action 'reject': the test of the comment. Then the fields of
\* the loaded booking are set.
ModerateCheck(w) ==
    LET r == requests[w]
    IN  /\ r.op \in {"approve", "reject"} /\ r.pc = "loaded"
        /\ IF r.op = "approve" /\ conflicting(r.booking)
           THEN /\ requests' = [requests EXCEPT ![w].pc = "conflict"]
                /\ UNCHANGED last
           ELSE IF r.op = "approve" /\ r.booking.start_time < now
           THEN Answer(w, "PastDate")
           ELSE IF r.op = "reject" /\ reject_check(r.comment) # "ok"
           THEN Answer(w, reject_check(r.comment))
           ELSE /\ requests' = [requests EXCEPT
                       ![w].pc = "checked",
                       ![w].booking = [r.booking EXCEPT
                                          !.status = moderated_status(r.op),
                                          !.moderated_by = r.user,
                                          !.moderation_comment = r.comment]]
                /\ UNCHANGED last
        /\ UNCHANGED <<now, rooms, bookings, history, next_id>>

\* moderate_booking, on a conflict: the `conflicts` query, evaluated when the
\* page is rendered.
ModerateConflicts(w) ==
    LET r == requests[w]
    IN  /\ r.op = "approve" /\ r.pc = "conflict"
        /\ AnswerConflicts(w,
               OverlapFilter(r.booking.room, {"approved"},
                             r.booking.end_time, r.booking.start_time) \ {r.id})
        /\ UNCHANGED <<now, rooms, bookings, history, next_id>>

\* moderate_booking: booking.save() writes every column of the loaded row; when
\* the row has been deleted meanwhile the save inserts it again and fails on
\* the foreign key of the deleted room.
ModerateSave(w) ==
    LET r == requests[w]
    IN  /\ r.op \in {"approve", "reject"} /\ r.pc = "checked"
        /\ IF r.id \in DOMAIN bookings
           THEN /\ bookings' = [bookings EXCEPT ![r.id] = r.booking]
                /\ requests' = [requests EXCEPT ![w].pc = "saved"]
                /\ UNCHANGED last
           ELSE /\ Answer(w, "IntegrityError")
                /\ UNCHANGED bookings
        /\ UNCHANGED <<now, rooms, history, next_id>>

\* moderate_booking: BookingHistory.objects.create(action=action); the insert
\* fails on the foreign key when the booking has been deleted meanwhile.
ModerateHistory(w) ==
    LET r == requests[w]
    IN  /\ r.op \in {"approve", "reject"} /\ r.pc = "saved"
        /\ IF r.id \in DOMAIN bookings
           THEN /\ history' = [history EXCEPT
                      ![r.id] = Append(@, HistoryEntry(r.user, r.op,
                                    [NoDetails EXCEPT !.comment = r.comment]))]
                /\ Answer(w, "ok")
           ELSE /\ Answer(w, "IntegrityError")
                /\ UNCHANGED history
        /\ UNCHANGED <<now, rooms, bookings, next_id>>

\* delete_room: moderator_required, get_object_or_404(ConferenceRoom) and the
\* has_future_bookings query.
DeleteCheck(w) ==
    LET r == requests[w]
        result == IF User[r.user] # "moderator" THEN "Forbidden"
                  ELSE IF r.room \notin DOMAIN rooms THEN "NotFound"
                  ELSE IF has_future_bookings(r.room) THEN "HasFutureBookings"
                  ELSE "ok"
    IN  /\ r.op = "delete_room" /\ r.pc = "ready"
        /\ IF result = "ok"
           THEN /\ requests' = [requests EXCEPT ![w].pc = "checked"]
                /\ UNCHANGED last
           ELSE Answer(w, result)
        /\ UNCHANGED <<now, rooms, bookings, history, next_id>>

\* delete_room: room.delete(), with the bookings and history entries the
\* database holds at that moment.
DeleteSave(w) ==
    LET r == requests[w]
    IN  /\ r.op = "delete_room" /\ r.pc = "checked"
        /\ IF r.room \in DOMAIN rooms
           THEN CascadeDelete(r.room)
           ELSE UNCHANGED <<rooms, bookings, history>>
        /\ Answer(w, "ok")
        /\ UNCHANGED <<now, next_id>>

\* The request dies between booking.save() and BookingHistory.objects.create
\* (the worker is killed, the connection to the database is lost): no view
\* opens a transaction, so the saved row stays.
Abandon(w) ==
    /\ requests[w].op \in {"create", "approve"}
    /\ requests[w].pc = "saved"
    /\ Answer(w, "ServerError")
    /\ UNCHANGED <<now, rooms, bookings, history, next_id>>

NextRace ==
    \E w \in Workers :
        \/ Receive(w)
        \/ CreateValidate(w)
        \/ CreateSave(w)
        \/ CreateHistory(w)
        \/ ModerateLoad(w)
        \/ ModerateCheck(w)
        \/ ModerateConflicts(w)
        \/ ModerateSave(w)
        \/ ModerateHistory(w)
        \/ DeleteCheck(w)
        \/ DeleteSave(w)
        \/ Abandon(w)

SpecRace == InitRace /\ [][NextRace]_vars

(***************************************************************************)
(* A cancellation and a moderation of one booking, statement by statement. *)
(***************************************************************************)
\* cancel_booking: requester_required,
\* get_object_or_404(Booking, id=booking_id, requester=request.user) and the
\* two tests of the loaded booking.
CancelLoad(w) ==
    LET r == requests[w]
        result == IF User[r.user] # "requester" THEN "Forbidden"
                  ELSE IF ~(r.id \in DOMAIN bookings
                            /\ bookings[r.id].requester = r.user)
                       THEN "NotFound"
                  ELSE cancel_check(bookings[r.id])
    IN  /\ r.op = "cancel" /\ r.pc = "ready"
        /\ IF result = "ok"
           THEN /\ requests' = [requests EXCEPT ![w].pc = "loaded",
                                                ![w].booking = bookings[r.id]]
                /\ UNCHANGED last
           ELSE Answer(w, result)
        /\ UNCHANGED <<now, rooms, bookings, history, next_id>>

\* cancel_booking (POST): old_status = booking.status, then
\* booking.status = 'cancelled' and booking.save(), which writes every column
\* of the loaded row.
CancelSave(w) ==
    LET r == requests[w]
    IN  /\ r.op = "cancel" /\ r.pc = "loaded"
        /\ IF r.id \in DOMAIN bookings
           THEN /\ bookings' = [bookings EXCEPT
                                   ![r.id] = [r.booking EXCEPT
                                                 !.status = "cancelled"]]
                /\ requests' = [requests EXCEPT ![w].pc = "saved"]
                /\ UNCHANGED last
           ELSE /\ Answer(w, "IntegrityError")
                /\ UNCHANGED bookings
        /\ UNCHANGED <<now, rooms, history, next_id>>

\* cancel_booking: BookingHistory.objects.create(action='cancelled',
\* details={'old_status': old_status}).
CancelHistory(w) ==
    LET r == requests[w]
    IN  /\ r.op = "cancel" /\ r.pc = "saved"
        /\ IF r.id \in DOMAIN bookings
           THEN /\ history' = [history EXCEPT
                      ![r.id] = Append(@, HistoryEntry(r.user, "cancelled",
                                    [NoDetails EXCEPT
                                        !.old_status = r.booking.status]))]
                /\ Answer(w, "ok")
           ELSE /\ Answer(w, "IntegrityError")
                /\ UNCHANGED history
        /\ UNCHANGED <<now, rooms, bookings, next_id>>

\* The booking the requests are about: the base slot, asked for by alice and
\* pending.
InitStatusRace ==
    /\ now = 420
    /\ rooms = [r \in RoomIds |-> [is_active |-> TRUE]]
    /\ bookings = (1 :> NewBooking("alice", BaseSlot.room, BaseSlot.start_time,
                                   BaseSlot.end_time))
    /\ history = (1 :> << HistoryEntry("alice", "created",
                              [NoDetails EXCEPT !.room = BaseSlot.room]) >>)
    /\ next_id = 2
    /\ last = Response("none", 0, "ok")
    /\ requests = [w \in Workers |-> Idle]

\* A worker takes a request about the booking: a cancel by its requester, or
\* an approve or a reject by the moderator.
ReceiveStatus(w) ==
    /\ requests[w].pc \in {"idle", "done"}
    /\ \/ requests' = [requests EXCEPT
               ![w] = Request("cancel", "alice", 0, 0, 0, 1)]
       \/ requests' = [requests EXCEPT
               ![w] = Request("approve", "mod", 0, 0, 0, 1)]
       \/ \E comment \in {"", "no projector"} :
             requests' = [requests EXCEPT
                 ![w] = [ Request("reject", "mod", 0, 0, 0, 1) EXCEPT
                             !.comment = comment ]]
    /\ UNCHANGED <<now, rooms, bookings, history, next_id, last>>

NextStatusRace ==
    \E w \in Workers :
        \/ ReceiveStatus(w)
        \/ CancelLoad(w)
        \/ CancelSave(w)
        \/ CancelHistory(w)
        \/ ModerateLoad(w)
        \/ ModerateCheck(w)
        \/ ModerateSave(w)
        \/ ModerateHistory(w)

SpecStatusRace == InitStatusRace /\ [][NextStatusRace]_vars

(***************************************************************************)
(* The pages that read the tables: schedule, room_schedule, the moderation  *)
(* page and booking_detail (GET requests; none of them writes).            *)
(***************************************************************************)
\* The orders a queryset can come in: the sequences without repetition of the
\* rows of S.
Orders(S) ==
    {seq \in [1..Cardinality(S) -> S] :
        \A i \in DOMAIN seq : \A j \in DOMAIN seq : seq[i] = seq[j] => i = j}

\* .order_by('start_time'): ascending, rows of equal start in any order.
order_by_start_time(S) ==
    {seq \in Orders(S) :
        \A i \in DOMAIN seq : \A j \in DOMAIN seq :
            i < j => bookings[seq[i]].start_time <= bookings[seq[j]].start_time}

\* Booking.Meta.ordering = ['-start_time'], the order of a Booking queryset
\* without order_by: descending, rows of equal start in any order.
meta_ordering(S) ==
    {seq \in Orders(S) :
        \A i \in DOMAIN seq : \A j \in DOMAIN seq :
            i < j => bookings[seq[i]].start_time >= bookings[seq[j]].start_time}

\* day_start and day_end of the selected date: 00:00 and the last instant of
\* the day.
day_start(d) == d * MinutesPerDay
day_end(d) == d * MinutesPerDay + (MinutesPerDay - 1)

\* The mutant of schedule_bookings that takes bookings of every status.
schedule_bookings_any_status(d, room_id) ==
    {id \in DOMAIN bookings :
        /\ bookings[id].start_time >= day_start(d)
        /\ bookings[id].start_time <= day_end(d)
        /\ room_id # 0 => bookings[id].room = room_id}

\* The mutant of schedule_bookings that takes the bookings of every date.
schedule_bookings_any_date(d, room_id) ==
    {id \in DOMAIN bookings :
        /\ bookings[id].status = "approved"
        /\ room_id # 0 => bookings[id].room = room_id}

\* schedule: Booking.objects.filter(status='approved',
\*     start_time__gte=day_start, start_time__lte=day_end), and
\* .filter(room_id=room_id) when a room is given (room_id 0: none is given).
schedule_bookings(d, room_id) ==
    {id \in DOMAIN bookings :
        /\ bookings[id].status = "approved"
        /\ bookings[id].start_time >= day_start(d)
        /\ bookings[id].start_time <= day_end(d)
        /\ room_id # 0 => bookings[id].room = room_id}

\* The rows of the sequence bs that are in keep, in the order of bs.
RECURSIVE Filter(_, _)
Filter(bs, keep) ==
    IF bs = << >> THEN << >>
    ELSE IF Head(bs) \in keep THEN << Head(bs) >> \o Filter(Tail(bs), keep)
    ELSE Filter(Tail(bs), keep)

\* schedule: the timeline, one entry for each hour of range(7, 17), each with
\* one list for every active room: the bookings of bs of that room whose local
\* start has that hour.
timeline(bs) ==
    [ i \in 1..(17 - 7) |->
        LET h == 7 + (i - 1)
        IN  [ hour |-> h,
              data |-> [ room \in ActiveRooms |->
                           Filter(bs, {id \in DOMAIN bookings :
                                          /\ bookings[id].room = room
                                          /\ hour(bookings[id].start_time) = h}) ] ] ]

\* views.schedule, under any_role_required.
schedule(user, d, room_id) ==
    /\ \E bs \in order_by_start_time(schedule_bookings(d, room_id)) :
          last' = [ Response("schedule", 0, "ok") EXCEPT
                       !.context = [ selected_date |-> d, room_id |-> room_id,
                                     timeline |-> timeline(bs) ] ]
    /\ UNCHANGED <<now, rooms, bookings, history, next_id>>

\* views.room_schedule, under any_role_required: the approved bookings of an
\* active room that start on the selected date, by start time.
room_schedule(user, room, d) ==
    /\ IF room \notin ActiveRooms
       THEN last' = Response("room_schedule", room, "NotFound")
       ELSE \E bs \in order_by_start_time(schedule_bookings(d, room)) :
               last' = [ Response("room_schedule", room, "ok") EXCEPT
                            !.context = [ selected_date |-> d,
                                          bookings |-> bs ] ]
    /\ UNCHANGED <<now, rooms, bookings, history, next_id>>

\* The mutant of conflicts_orders that lists the conflicts by ascending start.
conflicts_orders_ascending(id) == order_by_start_time(approve_conflicts(id))

\* moderate_booking: the `conflicts` queryset, in the default order of Booking.
conflicts_orders(id) == meta_ordering(approve_conflicts(id))

\* views.moderate_booking (GET), under moderator_required: the page of a
\* pending booking with the approved bookings that conflict with it.
moderate_page(user, id) ==
    /\ IF User[user] # "moderator"
       THEN last' = Response("moderate_page", id, "Forbidden")
       ELSE IF ~(id \in DOMAIN bookings /\ bookings[id].status = "pending")
       THEN last' = Response("moderate_page", id, "NotFound")
       ELSE \E conflicts \in conflicts_orders(id) :
               last' = [ Response("moderate_page", id, "ok") EXCEPT
                            !.context = conflicts ]
    /\ UNCHANGED <<now, rooms, bookings, history, next_id>>

\* The entries of a sequence, last first.
Reverse(seq) == [ i \in 1..Len(seq) |-> seq[Len(seq) + 1 - i] ]

\* The mutant of history_all that lists the entries oldest first.
history_all_oldest_first(id) == history[id]

\* booking.history.all(): BookingHistory.Meta.ordering = ['-timestamp'], the
\* entries by descending time of writing.
history_all(id) == Reverse(history[id])

\* views.booking_detail, under any_role_required: the booking and the first
\* ten entries of its history, for a moderator or the booking's requester.
booking_detail(user, id) ==
    /\ IF id \notin DOMAIN bookings
       THEN last' = Response("booking_detail", id, "NotFound")
       ELSE IF User[user] # "moderator" /\ bookings[id].requester # user
       THEN last' = Response("booking_detail", id, "Forbidden")
       ELSE last' = [ Response("booking_detail", id, "ok") EXCEPT
                         !.context = SubSeq(history_all(id), 1,
                                            IF Len(history_all(id)) < 10
                                            THEN Len(history_all(id)) ELSE 10) ]
    /\ UNCHANGED <<now, rooms, bookings, history, next_id>>

(***************************************************************************)
(* The pages applied to tables the views can leave behind.                 *)
(***************************************************************************)
\* The slots of the bookings in the tables, by primary key.
ViewSlots ==
    << [ room |-> 1, start_time |-> 540, end_time |-> 600 ],      \* 09:00-10:00
       [ room |-> 1, start_time |-> 570, end_time |-> 630 ],      \* 09:30-10:30
       [ room |-> 1, start_time |-> 600, end_time |-> 660 ],      \* 10:00-11:00
       [ room |-> 2, start_time |-> 1980, end_time |-> 2040 ] >>  \* day 1

\* The booking of a slot in the given status, as the views leave it: moderated
\* when approved or rejected, cancelled while pending.
BookingInStatus(slot, status) ==
    [ NewBooking("alice", slot.room, slot.start_time, slot.end_time) EXCEPT
        !.status = status,
        !.moderated_by = IF status \in {"approved", "rejected"}
                         THEN "mod" ELSE None,
        !.moderation_comment = IF status = "rejected"
                               THEN "no projector" ELSE "" ]

\* The history entries of that booking.
HistoryInStatus(slot, status) ==
    << HistoryEntry("alice", "created", [NoDetails EXCEPT !.room = slot.room]) >>
    \o ( CASE status = "pending" -> << >>
           [] status = "approved" ->
                << HistoryEntry("mod", "approve", NoDetails) >>
           [] status = "rejected" ->
                << HistoryEntry("mod", "reject",
                                [NoDetails EXCEPT !.comment = "no projector"]) >>
           [] status = "cancelled" ->
                << HistoryEntry("alice", "cancelled",
                                [NoDetails EXCEPT !.old_status = "pending"]) >> )

\* Any of the slots booked, in any status; the second room switched on or off.
InitView ==
    /\ now = 420
    /\ \E is_active \in BOOLEAN :
          rooms = [r \in RoomIds |->
                      [is_active |-> IF r = BaseSlot.room THEN TRUE ELSE is_active]]
    /\ \E ids \in SUBSET DOMAIN ViewSlots :
       \E status \in [ids -> STATUS_CHOICES] :
          /\ bookings = [id \in ids |-> BookingInStatus(ViewSlots[id], status[id])]
          /\ history = [id \in ids |-> HistoryInStatus(ViewSlots[id], status[id])]
    /\ next_id = Len(ViewSlots) + 1
    /\ last = Response("none", 0, "ok")
    /\ requests = [w \in {1} |-> Idle]

\* Anybody opens the schedule of a day, of all rooms or of one.
ViewSchedule ==
    /\ \E d \in {0, 1}, room_id \in {0} \cup RoomIds :
          schedule("emp", d, room_id)
    /\ UNCHANGED requests

\* Anybody opens the schedule of a room.
ViewRoomSchedule ==
    /\ \E room \in RoomIds, d \in {0, 1} : room_schedule("emp", room, d)
    /\ UNCHANGED requests

\* The moderator opens the moderation page of a booking.
ViewModerate ==
    /\ \E id \in DOMAIN ViewSlots : moderate_page("mod", id)
    /\ UNCHANGED requests

\* A user opens the page of a booking.
ViewBookingDetail ==
    /\ \E user \in {"alice", "mod", "emp"}, id \in DOMAIN ViewSlots :
          booking_detail(user, id)
    /\ UNCHANGED requests

\* The requester cancels a booking.
ViewCancel ==
    /\ \E id \in DOMAIN ViewSlots : cancel_booking("alice", id)
    /\ UNCHANGED requests

NextView ==
    ViewSchedule \/ ViewRoomSchedule \/ ViewModerate \/ ViewBookingDetail
        \/ ViewCancel

SpecView == InitView /\ [][NextView]_vars

(***************************************************************************)
(* Requests of every user, handled one after another, on tables the views  *)
(* can leave behind.                                                       *)
(***************************************************************************)
\* check_availability: time_valid, the outcome of the tests of the working
\* hours and of the duration.
time_valid(start_time, end_time) ==
    /\ ~(hour(start_time) < BOOKING_SETTINGS.BOOKING_START_HOUR)
    /\ ~(\/ hour(end_time) > BOOKING_SETTINGS.BOOKING_END_HOUR
         \/ /\ hour(end_time) = BOOKING_SETTINGS.BOOKING_END_HOUR
            /\ minute(end_time) > BOOKING_SETTINGS.BOOKING_END_MINUTE)
    /\ ~(end_time - start_time
           < timedelta(0, 0, BOOKING_SETTINGS.MIN_BOOKING_DURATION))
    /\ ~(end_time - start_time
           > timedelta(0, 0, BOOKING_SETTINGS.MAX_BOOKING_DURATION))

\* check_availability: the `available` of the answer for an active room: the
\* start has not passed, time_valid, and no approved booking of the room
\* overlaps the interval.
available(room, start_time, end_time) ==
    IF start_time < now THEN FALSE
    ELSE /\ OverlapFilter(room, {"approved"}, end_time, start_time) = {}
         /\ time_valid(start_time, end_time)

\* views.check_availability (GET with all parameters), under
\* any_role_required: status 400 when the room is not an active room.
check_availability(user, room, start_time, end_time) ==
    /\ last' = Response("check_availability", 0,
                   IF room \notin ActiveRooms THEN "BadRequest"
                   ELSE IF available(room, start_time, end_time)
                        THEN "available" ELSE "unavailable")
    /\ UNCHANGED <<now, rooms, bookings, history, next_id>>

\* The slots asked for: two overlapping ones of the first room and one of the
\* second room on the next day.
DeskSlots ==
    { [ room |-> 1, start_time |-> 540, end_time |-> 600 ],      \* 09:00-10:00
      [ room |-> 1, start_time |-> 570, end_time |-> 630 ],      \* 09:30-10:30
      [ room |-> 2, start_time |-> 1980, end_time |-> 2040 ] }   \* day 1

\* The number of bookings the tables can hold before the first request.
InitialBookings == 2

\* Up to InitialBookings bookings by alice, each of any slot and in any
\* status; the second room switched on or off.
InitDesk ==
    /\ now = 420
    /\ \E is_active \in BOOLEAN :
          rooms = [r \in RoomIds |->
                      [is_active |-> IF r = BaseSlot.room THEN TRUE ELSE is_active]]
    /\ \E n \in 0..InitialBookings :
       \E slot \in [1..n -> DeskSlots] :
       \E status \in [1..n -> STATUS_CHOICES] :
          /\ bookings = [id \in 1..n |-> BookingInStatus(slot[id], status[id])]
          /\ history = [id \in 1..n |-> HistoryInStatus(slot[id], status[id])]
          /\ next_id = n + 1
    /\ last = Response("none", 0, "ok")
    /\ requests = [w \in {1} |-> Idle]

\* A requester or an employee asks for a slot.
DeskCreate ==
    /\ \E user \in {"alice", "emp"}, slot \in DeskSlots :
          create_booking(user, slot.room, slot.start_time, slot.end_time)
    /\ UNCHANGED requests

\* The moderator or a requester approves or rejects a booking.
DeskModerate ==
    /\ \E user \in {"mod", "alice"}, id \in 1..MaxBookings :
          \/ moderate_booking(user, id, "approve", "")
          \/ \E comment \in {"", "no projector"} :
                moderate_booking(user, id, "reject", comment)
    /\ UNCHANGED requests

\* The requester of a booking, another requester or the moderator cancels it.
DeskCancel ==
    /\ \E user \in {"alice", "bob", "mod"}, id \in 1..MaxBookings : cancel_booking(user, id)
    /\ UNCHANGED requests

\* The rooms and intervals availability is asked for: the slots, an interval
\* that touches the first slot, one that ends after the working day and one
\* that has started.
DeskProbes ==
    { <<slot.room, <<slot.start_time, slot.end_time>> >> : slot \in DeskSlots }
    \cup { <<BaseSlot.room, iv>> :
              iv \in { <<600, 660>>, <<930, 991>>, <<390, 450>> } }

\* A user asks whether a room is free in an interval.
DeskCheckAvailability ==
    /\ \E p \in DeskProbes :
          check_availability("alice", p[1], p[2][1], p[2][2])
    /\ UNCHANGED requests

NextDesk ==
    DeskCreate \/ DeskModerate \/ DeskCancel \/ DeskCheckAvailability

SpecDesk == InitDesk /\ [][NextDesk]_vars

(***************************************************************************)
(* Reference notions the properties are stated with.                       *)
(***************************************************************************)
\* Half-open intervals [s1, e1) and [s2, e2) overlap.
RefOverlap(s1, e1, s2, e2) == s1 < e2 /\ s2 < e1

Live == {"pending", "approved"}

\* The minute of the day of an instant.
MinuteOfDay(t) == t % MinutesPerDay
WorkStart == BOOKING_SETTINGS.BOOKING_START_HOUR * 60
WorkEnd ==
    BOOKING_SETTINGS.BOOKING_END_HOUR * 60 + BOOKING_SETTINGS.BOOKING_END_MINUTE

\* The rules of the time window, by their number in the specification; each
\* is TRUE when the interval [s, e) requested at time t violates it.
Violates(rule, s, e, t) ==
    CASE rule = 1 -> ~(e > s)
      [] rule = 2 -> ~(s >= t)
      [] rule = 3 -> ~(s <= t + BOOKING_SETTINGS.MAX_ADVANCE_BOOKING_DAYS * MinutesPerDay)
      [] rule = 4 -> ~(e - s >= BOOKING_SETTINGS.MIN_BOOKING_DURATION)
      [] rule = 5 -> ~(e - s <= BOOKING_SETTINGS.MAX_BOOKING_DURATION)
      [] rule = 6 -> ~(MinuteOfDay(s) >= WorkStart)
      [] rule = 7 -> ~(MinuteOfDay(e) <= WorkEnd)

\* The failure each rule is reported with.
RuleFailure(rule) ==
    CASE rule = 1 -> "InvalidInterval"
      [] rule = 2 -> "PastDate"
      [] rule = 3 -> "AdvanceLimitExceeded"
      [] rule = 4 -> "MinDuration"
      [] rule = 5 -> "MaxDuration"
      [] rule = 6 -> "StartHour"
      [] rule = 7 -> "EndTime"

\* The failure of the first rule of the sequence `order` that is violated,
\* "none" when none is.
RECURSIVE FirstFailure(_, _, _, _)
FirstFailure(order, s, e, t) ==
    IF order = << >> THEN "none"
    ELSE IF Violates(Head(order), s, e, t) THEN RuleFailure(Head(order))
    ELSE FirstFailure(Tail(order), s, e, t)

\* The request in flight has been answered.
Answered == requests[1].pc = "done"
\* It has been answered, and its room was an active room when it was handled.
AnsweredForActiveRoom == Answered /\ requests[1].result # "RoomInactive"
\* The step that answers the request in flight.
AnswerStep == requests[1].pc = "ready" /\ requests'[1].pc = "done"

\* The live bookings of the request's room that overlap the request.
LiveOverlaps(r) ==
    {id \in DOMAIN bookings :
        /\ bookings[id].room = r.room
        /\ bookings[id].status \in Live
        /\ RefOverlap(bookings[id].start_time, bookings[id].end_time,
                      r.start_time, r.end_time)}

(***************************************************************************)
(* Properties.                                                             *)
(***************************************************************************)
\* C2: in every state reached by create, approve, reject and cancel steps,
\* the interval of an approved booking overlaps no other pending or approved
\* booking of the same room.
C2_ApprovedOverlapsNoLiveBooking ==
    \A a \in DOMAIN bookings : \A b \in DOMAIN bookings :
        ( /\ a # b
          /\ bookings[a].status = "approved"
          /\ bookings[b].status \in Live
          /\ bookings[a].room = bookings[b].room )
        => ~RefOverlap(bookings[a].start_time, bookings[a].end_time,
                       bookings[b].start_time, bookings[b].end_time)

\* C2 witness: an approved booking shares its room with another live booking.
C2_Witness ==
    \E a \in DOMAIN bookings : \E b \in DOMAIN bookings :
        /\ a # b
        /\ bookings[a].status = "approved"
        /\ bookings[b].status \in Live
        /\ bookings[a].room = bookings[b].room

\* C4: the only status changes of a booking are pending->approved,
\* pending->rejected, pending->cancelled and approved->cancelled.
C4_StatusTransitions ==
    [][ \A id \in DOMAIN bookings \cap DOMAIN bookings' :
            /\ bookings'[id].status \in STATUS_CHOICES
            /\ \/ bookings'[id].status = bookings[id].status
               \/ << bookings[id].status, bookings'[id].status >>
                     \in { <<"pending", "approved">>, <<"pending", "rejected">>,
                           <<"pending", "cancelled">>, <<"approved", "cancelled">> }
      ]_vars

\* C4 witness: a booking was approved and then cancelled, another rejected.
C4_Witness ==
    /\ \E id \in DOMAIN bookings :
          bookings[id].status = "cancelled" /\ bookings[id].moderated_by # None
    /\ \E id \in DOMAIN bookings : bookings[id].status = "rejected"

C9_CreateConflict ==
    [][ AnswerStep =>
          LET r == requests[1]
              passes == /\ r.room \in ActiveRooms
                        /\ FirstFailure(<<2, 1, 4, 5, 6, 7>>, r.start_time,
                                        r.end_time, now) = "none"
          IN  /\ LiveOverlaps(r) # {}
                 => /\ requests'[1].result # "ok"
                    /\ UNCHANGED <<bookings, history, next_id>>
                    /\ passes => requests'[1].result = "ConflictDetected"
              /\ requests'[1].result = "ConflictDetected"
                 => ( passes /\ LiveOverlaps(r) # {} )
      ]_vars

\* C9 witness: the request was answered ConflictDetected, a live booking of
\* its room overlaps it and a rejected or cancelled one does too.
C9_Witness ==
    /\ Answered
    /\ requests[1].result = "ConflictDetected"
    /\ LiveOverlaps(requests[1]) # {}
    /\ \E id \in DOMAIN bookings :
          /\ bookings[id].room = requests[1].room
          /\ bookings[id].status \in {"rejected", "cancelled"}
          /\ RefOverlap(bookings[id].start_time, bookings[id].end_time,
                        requests[1].start_time, requests[1].end_time)

\* C10: create (for an active room) and approve report a conflict with exactly
\* the bookings [s1, e1) of the room for which s1 < e2 and s2 < e1; bookings
\* that touch at an endpoint do not conflict.
C10_HalfOpenOverlap ==
    [][ /\ AnswerStep =>
             LET r == requests[1]
             IN  ( /\ r.room \in ActiveRooms
                   /\ FirstFailure(<<2, 1, 4, 5, 6, 7>>, r.start_time,
                                   r.end_time, now) = "none" )
                 => ( requests'[1].result = "ConflictDetected"
                      <=> LiveOverlaps(r) # {} )
        /\ ( now' = now /\ requests' = requests /\ last'.op = "approve"
             /\ last'.result # "NotFound" )
           => LET b == bookings[last'.id]
              IN  last'.result = "ConflictDetected"
                  <=> \E id \in DOMAIN bookings :
                         /\ bookings[id].room = b.room
                         /\ bookings[id].status = "approved"
                         /\ RefOverlap(bookings[id].start_time,
                                       bookings[id].end_time,
                                       b.start_time, b.end_time)
      ]_vars

\* C10 witness: two approved bookings of one room touch at an endpoint, so
\* neither the create nor the approve of the later one reported a conflict.
C10_Witness ==
    \E a \in DOMAIN bookings : \E b \in DOMAIN bookings :
        /\ bookings[a].room = bookings[b].room
        /\ bookings[a].status = "approved"
        /\ bookings[b].status = "approved"
        /\ bookings[a].end_time = bookings[b].start_time

\* The cancellation deadline, in minutes.
Deadline == timedelta(0, BOOKING_SETTINGS.CANCELLATION_DEADLINE_HOURS, 0)

\* C11 as stated: approve or reject of a booking that is not pending fails with
\* InvalidTransition and leaves the bookings and the history as they were.
C11_Original ==
    [][ \A id \in DOMAIN bookings :
          \A action \in {"approve", "reject"}, comment \in {"", "no projector"} :
            ( /\ bookings[id].status # "pending"
              /\ moderate_booking("mod", id, action, comment) )
            => /\ last'.result = "InvalidTransition"
               /\ UNCHANGED <<bookings, history>>
      ]_vars

\* C11 as amended: approve or reject of a booking that is not pending fails
\* with NotFound, the answer a booking that does not exist gets, and leaves the
\* booking's status, moderator and comment and the history log as they were.
C11_ModerateNotPending ==
    [][ \A id \in DOMAIN bookings :
          \A action \in {"approve", "reject"}, comment \in {"", "no projector"} :
            ( /\ bookings[id].status # "pending"
              /\ moderate_booking("mod", id, action, comment) )
            => /\ last'.result = "NotFound"
               /\ UNCHANGED <<bookings, history>>
      ]_vars

\* C11 witness: the moderation of a booking that had been approved, rejected or
\* cancelled before was answered NotFound.
C11_Witness ==
    /\ last.op \in {"approve", "reject"}
    /\ last.result = "NotFound"
    /\ last.id \in DOMAIN bookings
    /\ bookings[last.id].status \in {"approved", "rejected", "cancelled"}

\* C13: approving a pending booking whose start is not past succeeds, and
\* changes that booking alone, when another booking of the room with a disjoint
\* interval and a start not past is pending or was approved first; so two such
\* bookings are approved in either order, and both orders end with both
\* approved.
C13_DisjointApprovalsCommute ==
    [][ \A a \in DOMAIN bookings : \A b \in DOMAIN bookings :
          ( /\ a # b
            /\ bookings[a].room = bookings[b].room
            /\ ~RefOverlap(bookings[a].start_time, bookings[a].end_time,
                           bookings[b].start_time, bookings[b].end_time)
            /\ bookings[a].status = "pending"
            /\ bookings[b].status \in {"pending", "approved"}
            /\ bookings[a].start_time >= now
            /\ bookings[b].start_time >= now
            /\ moderate_booking("mod", a, "approve", "") )
          => /\ last'.result = "ok"
             /\ bookings' = [bookings EXCEPT ![a].status = "approved",
                                             ![a].moderated_by = "mod",
                                             ![a].moderation_comment = ""]
      ]_vars

\* C13 witness: two bookings of one room with disjoint intervals are both
\* approved, the one created first approved last.
C13_Witness ==
    \E a \in DOMAIN bookings : \E b \in DOMAIN bookings :
        /\ a < b
        /\ bookings[a].room = bookings[b].room
        /\ bookings[a].status = "approved"
        /\ bookings[b].status = "approved"
        /\ last.op = "approve" /\ last.id = a /\ last.result = "ok"

\* C14: reject of a pending booking with an empty comment fails with
\* MissingRejectionComment; the booking stays pending, its moderator and its
\* comment stay as they were and no history entry is appended.
C14_RejectNeedsComment ==
    [][ \A id \in DOMAIN bookings :
          ( /\ bookings[id].status = "pending"
            /\ moderate_booking("mod", id, "reject", "") )
          => /\ last'.result = "MissingRejectionComment"
             /\ UNCHANGED <<bookings, history>>
      ]_vars

\* C14 witness: a reject was answered MissingRejectionComment and the booking
\* is pending, without moderator, with its 'created' entry alone.
C14_Witness ==
    /\ last.op = "reject"
    /\ last.result = "MissingRejectionComment"
    /\ last.id \in DOMAIN bookings
    /\ bookings[last.id].status = "pending"
    /\ bookings[last.id].moderated_by = None
    /\ Len(history[last.id]) = 1

\* C15 as stated: cancel of an approved booking succeeds when now + deadline <
\* start and fails with CancellationWindowClosed, changing nothing, when
\* now + deadline >= start; cancel of a pending booking always succeeds.
C15_Original ==
    [][ \A id \in DOMAIN bookings :
          ( bookings[id].status \in {"pending", "approved"}
            /\ cancel_booking("alice", id) )
          => IF \/ bookings[id].status = "pending"
                \/ now + Deadline < bookings[id].start_time
             THEN /\ last'.result = "ok"
                  /\ bookings'[id].status = "cancelled"
                  /\ Len(history'[id]) = Len(history[id]) + 1
             ELSE /\ last'.result = "CancellationWindowClosed"
                  /\ UNCHANGED <<bookings, history>>
      ]_vars

\* C15 as amended: cancel of an approved booking succeeds when now + deadline <=
\* start, also when the start is exactly the deadline away, and fails with
\* CancellationWindowClosed, changing nothing, when now + deadline > start;
\* cancel of a pending booking always succeeds.
C15_CancellationWindow ==
    [][ \A id \in DOMAIN bookings :
          ( bookings[id].status \in {"pending", "approved"}
            /\ cancel_booking("alice", id) )
          => IF \/ bookings[id].status = "pending"
                \/ now + Deadline <= bookings[id].start_time
             THEN /\ last'.result = "ok"
                  /\ bookings'[id].status = "cancelled"
                  /\ Len(history'[id]) = Len(history[id]) + 1
             ELSE /\ last'.result = "CancellationWindowClosed"
                  /\ UNCHANGED <<bookings, history>>
      ]_vars

\* C15 witness: an approved booking was cancelled exactly the deadline before
\* its start.
C15_Witness ==
    /\ last.op = "cancel" /\ last.result = "ok"
    /\ last.id \in DOMAIN bookings
    /\ bookings[last.id].status = "cancelled"
    /\ bookings[last.id].moderated_by # None
    /\ bookings[last.id].start_time = now + Deadline

\* C16: cancel of a cancelled or rejected booking fails with InvalidTransition
\* and changes nothing, so repeating it changes nothing either.
C16_CancelClosedBooking ==
    [][ \A id \in DOMAIN bookings :
          ( bookings[id].status \in {"cancelled", "rejected"}
            /\ cancel_booking("alice", id) )
          => /\ last'.result = "InvalidTransition"
             /\ UNCHANGED <<bookings, history, rooms, next_id, now>>
      ]_vars

\* C16 witness: the cancel of a cancelled booking was answered
\* InvalidTransition and the booking has its two entries, created and cancelled.
C16_Witness ==
    /\ last.op = "cancel" /\ last.result = "InvalidTransition"
    /\ last.id \in DOMAIN bookings
    /\ bookings[last.id].status = "cancelled"
    /\ Len(history[last.id]) = 2
    /\ history[last.id][2].action = "cancelled"

\* C17: every history entry has an action of {created, updated, approved,
\* rejected, cancelled}, and the last entry of a booking names its status:
\* created for pending, approved, rejected, cancelled for the others.
C17_HistoryActions ==
    \A id \in DOMAIN history :
        /\ \A i \in 1..Len(history[id]) : history[id][i].action \in ACTION_CHOICES
        /\ history[id] # << >>
        /\ history[id][Len(history[id])].action =
              IF bookings[id].status = "pending" THEN "created"
              ELSE bookings[id].status

\* C18: the history log is append-only: every step keeps every entry, so the
\* entries of a booking before a step are a prefix of its entries after it.
C18_HistoryAppendOnly ==
    [][ \A id \in DOMAIN history :
          /\ id \in DOMAIN history'
          /\ Len(history'[id]) >= Len(history[id])
          /\ SubSeq(history'[id], 1, Len(history[id])) = history[id]
      ]_vars

\* C19: no step removes a booking: the set of booking identifiers never
\* shrinks.
C19_BookingsNeverRemoved ==
    [][ DOMAIN bookings \subseteq DOMAIN bookings' ]_vars

\* The approved bookings of the room, other than the booking itself, that
\* overlap the booking b with identifier id.
ApprovedOverlaps(b, id) ==
    {o \in DOMAIN bookings \ {id} :
        /\ bookings[o].room = b.room
        /\ bookings[o].status = "approved"
        /\ RefOverlap(bookings[o].start_time, bookings[o].end_time,
                      b.start_time, b.end_time)}

\* C12: the approve of a pending booking that overlaps an approved booking of
\* its room never goes on to set the status: it is answered ConflictDetected
\* with exactly the approved bookings of the room that overlap it, and none of
\* its steps writes the booking (status, moderator, comment) or the history.
C12_ApproveConflict ==
    [][ \A w \in Workers :
          LET r == requests[w]
          IN  /\ ( /\ r.op = "approve" /\ r.pc = "loaded"
                   /\ requests'[w].pc # "loaded"
                   /\ ApprovedOverlaps(r.booking, r.id) # {} )
                 => /\ requests'[w].pc = "conflict"
                    /\ UNCHANGED <<bookings, history>>
              /\ ( r.op = "approve" /\ r.pc = "conflict"
                   /\ requests'[w].pc = "done" )
                 => /\ requests'[w].result = "ConflictDetected"
                    /\ last'.conflicts = ApprovedOverlaps(r.booking, r.id)
                    /\ UNCHANGED <<bookings, history>>
              /\ ( r.op = "approve" /\ r.pc = "ready"
                   /\ requests'[w].pc # "ready" )
                 => UNCHANGED <<bookings, history>>
      ]_vars

\* C12 witness: an approve was answered ConflictDetected with a conflict set
\* that is not empty, and the booking is pending, without moderator or comment,
\* with its 'created' entry alone.
C12_Witness ==
    \E w \in Workers :
        /\ requests[w].op = "approve" /\ requests[w].pc = "done"
        /\ requests[w].result = "ConflictDetected"
        /\ last.id = requests[w].id /\ last.result = "ConflictDetected"
        /\ last.conflicts # {}
        /\ last.id \in DOMAIN bookings
        /\ bookings[last.id].status = "pending"
        /\ bookings[last.id].moderated_by = None
        /\ bookings[last.id].moderation_comment = ""
        /\ Len(history[last.id]) = 1

\* C20: no step deletes a room that an approved booking with a start not yet
\* passed references.
C20_RoomWithFutureApprovedKept ==
    [][ \A room \in DOMAIN rooms :
          room \notin DOMAIN rooms' => ~has_future_bookings(room)
      ]_vars

\* C21: the booking write and the history append of a transition are one
\* atomic unit: in every state every booking has the history entry of the
\* transition that set its status ('created' when it is pending, an entry of
\* the moderation when it is approved).
C21_BookingWriteHasHistoryEntry ==
    \A id \in DOMAIN bookings :
        /\ id \in DOMAIN history
        /\ \E i \in 1..Len(history[id]) : history[id][i].action = "created"
        /\ bookings[id].status = "approved"
           => \E i \in 1..Len(history[id]) :
                 history[id][i].action \in {"approve", "approved"}

\* C24: approve of a pending booking whose start is earlier than the current
\* time fails and leaves the booking and the history as they were; no step
\* turns a booking approved after its start.
C24_NoApprovalAfterStart ==
    [][ \A id \in DOMAIN bookings :
          /\ ( /\ bookings[id].status = "pending"
               /\ bookings[id].start_time < now
               /\ moderate_booking("mod", id, "approve", "") )
             => /\ last'.result \in {"PastDate", "ConflictDetected"}
                /\ UNCHANGED <<bookings, history>>
          /\ ( /\ id \in DOMAIN bookings'
               /\ bookings[id].status # "approved"
               /\ bookings'[id].status = "approved" )
             => bookings[id].start_time >= now
      ]_vars

\* C24 witness: the approve of a booking that has started was refused and the
\* booking is pending, without moderator, with its 'created' entry alone.
C24_Witness ==
    /\ last.op = "approve" /\ last.result = "PastDate"
    /\ last.id \in DOMAIN bookings
    /\ bookings[last.id].status = "pending"
    /\ bookings[last.id].start_time < now
    /\ bookings[last.id].moderated_by = None
    /\ bookings[last.id].moderation_comment = ""
    /\ Len(history[last.id]) = 1

\* C25: a booking is created with start < end, a duration within the minimum
\* and the maximum, a start not earlier than its creation time and not later
\* than the creation time plus the horizon, with status pending and no
\* moderator; its interval, room and requester never change afterwards.
C25_BookingInvariants ==
    [][ \A id \in DOMAIN bookings' :
          IF id \in DOMAIN bookings
          THEN /\ bookings'[id].start_time = bookings[id].start_time
               /\ bookings'[id].end_time = bookings[id].end_time
               /\ bookings'[id].room = bookings[id].room
               /\ bookings'[id].requester = bookings[id].requester
          ELSE LET b == bookings'[id]
               IN  /\ b.start_time < b.end_time
                   /\ b.end_time - b.start_time
                        >= BOOKING_SETTINGS.MIN_BOOKING_DURATION
                   /\ b.end_time - b.start_time
                        <= BOOKING_SETTINGS.MAX_BOOKING_DURATION
                   /\ b.start_time >= now
                   /\ b.start_time
                        <= now + BOOKING_SETTINGS.MAX_ADVANCE_BOOKING_DAYS
                                   * MinutesPerDay
                   /\ b.status = "pending"
                   /\ b.moderated_by = None
                   /\ b.moderation_comment = ""
      ]_vars

\* C25 witness: a booking of the maximum duration and a booking that starts on
\* the day after its creation were created.
C25_Witness ==
    /\ Answered /\ requests[1].result = "ok"
    /\ \/ date(requests[1].start_time) > date(requests[1].current_time)
       \/ requests[1].end_time - requests[1].start_time
             = BOOKING_SETTINGS.MAX_BOOKING_DURATION
    /\ \E id \in DOMAIN bookings :
          /\ bookings[id].start_time = requests[1].start_time
          /\ bookings[id].end_time = requests[1].end_time
          /\ bookings[id].status = "approved"

\* The bookings of the request's room with the given status that overlap the
\* request.
OverlapsWithStatus(r, status) ==
    {id \in LiveOverlaps(r) : bookings[id].status = status}

C28_FailedCreateWritesNothing ==
    [][ AnswerStep =>
          LET r == requests[1]
          IN  ( FirstFailure(<<1, 2, 3, 4, 5, 6, 7>>, r.start_time, r.end_time,
                             now) # "none" )
              => /\ requests'[1].result # "ok"
                 /\ UNCHANGED <<bookings, history, next_id, rooms>>
      ]_vars

\* C28 witness: a request beyond the horizon was refused while the store held
\* a booking.
C28_Witness ==
    /\ Answered
    /\ requests[1].result = "AdvanceLimitExceeded"
    /\ last.op = "create" /\ last.result = "AdvanceLimitExceeded"
    /\ bookings # << >>

\* C30: a create for a room whose active flag is false is answered RoomInactive
\* and writes nothing; every booking is created on a room that is active when
\* it is created.
C30_RoomInactive ==
    [][ /\ AnswerStep =>
             LET r == requests[1]
             IN  ( r.room \in DOMAIN rooms /\ ~rooms[r.room].is_active )
                 => /\ requests'[1].result = "RoomInactive"
                    /\ UNCHANGED <<bookings, history, next_id, rooms>>
        /\ \A id \in DOMAIN bookings' \ DOMAIN bookings :
             /\ bookings'[id].room \in DOMAIN rooms
             /\ rooms[bookings'[id].room].is_active
      ]_vars

\* C30 witness: a create for a room switched off by a room edit was answered
\* RoomInactive, and the room has a booking from the time it was active.
C30_Witness ==
    /\ Answered
    /\ requests[1].result = "RoomInactive"
    /\ requests[1].room \in DOMAIN rooms
    /\ ~rooms[requests[1].room].is_active
    /\ last.op = "create"
    /\ \E id \in DOMAIN bookings : bookings[id].room = requests[1].room

\* The elements of a sequence.
Range(seq) == {seq[i] : i \in DOMAIN seq}

\* The bookings a timeline shows.
Shown(tl) ==
    UNION {Range(tl[i].data[room]) : i \in DOMAIN tl, room \in ActiveRooms}

\* C22: a timeline built by schedule, and a list built by room_schedule, holds
\* approved bookings only; a booking that was approved and then cancelled is in
\* no timeline built afterwards.
C22_ScheduleOnlyApproved ==
    [][ /\ \A d \in {0, 1}, room_id \in {0} \cup RoomIds :
             schedule("emp", d, room_id)
             => /\ \A id \in Shown(last'.context.timeline) :
                      bookings[id].status = "approved"
                /\ \A id \in DOMAIN bookings :
                      bookings[id].status \in {"pending", "rejected", "cancelled"}
                      => id \notin Shown(last'.context.timeline)
        /\ \A d \in {0, 1}, room \in RoomIds :
             ( room_schedule("emp", room, d) /\ last'.result = "ok" )
             => \A id \in Range(last'.context.bookings) :
                   bookings[id].status = "approved"
      ]_vars

\* C22 witness: the timeline of the day of a booking that was approved and
\* then cancelled has been built, for all rooms or for its room, and shows
\* another booking.
C22_Witness ==
    /\ last.op = "schedule"
    /\ Shown(last.context.timeline) # {}
    /\ \E id \in DOMAIN bookings :
          /\ bookings[id].status = "cancelled"
          /\ bookings[id].moderated_by # None
          /\ date(bookings[id].start_time) = last.context.selected_date
          /\ last.context.room_id \in {0, bookings[id].room}

\* C23: the timeline is the sequence of the buckets of the hours 7..16 in
\* ascending order; the bucket of hour h holds a list for every active room,
\* with exactly the approved bookings of that room that start on the selected
\* date in hour h (none for another room than the one asked for), each once.
C23_TimelineBuckets ==
    [][ \A d \in {0, 1}, room_id \in {0} \cup RoomIds :
          schedule("emp", d, room_id)
          => LET tl == last'.context.timeline
             IN  /\ Len(tl) = 10
                 /\ \A i \in DOMAIN tl :
                       /\ tl[i].hour = 6 + i
                       /\ DOMAIN tl[i].data = ActiveRooms
                       /\ \A room \in ActiveRooms :
                             /\ Range(tl[i].data[room]) =
                                  {id \in DOMAIN bookings :
                                      /\ bookings[id].status = "approved"
                                      /\ bookings[id].room = room
                                      /\ room_id \in {0, room}
                                      /\ date(bookings[id].start_time) = d
                                      /\ hour(bookings[id].start_time) = tl[i].hour}
                             /\ Len(tl[i].data[room])
                                  = Cardinality(Range(tl[i].data[room]))
      ]_vars

\* C23 witness: a timeline of all rooms shows bookings in two buckets and its
\* day has an approved booking of a room that is switched off; an approved
\* booking of another day is not shown.
C23_Witness ==
    /\ last.op = "schedule"
    /\ last.context.room_id = 0
    /\ \E i \in DOMAIN last.context.timeline :
       \E j \in DOMAIN last.context.timeline :
          /\ i < j
          /\ last.context.timeline[i].data[BaseSlot.room] # << >>
          /\ last.context.timeline[j].data[BaseSlot.room] # << >>
    /\ \E id \in DOMAIN bookings :
          /\ bookings[id].status = "approved"
          /\ date(bookings[id].start_time) # last.context.selected_date

\* C27: the history of a booking is listed most recent first: of two entries
\* the one appended later stands earlier in the list, every entry is listed,
\* and the page writes nothing.
C27_HistoryMostRecentFirst ==
    [][ \A user \in {"alice", "mod", "emp"}, id \in DOMAIN bookings :
          booking_detail(user, id)
          => /\ UNCHANGED <<bookings, history, rooms, next_id>>
             /\ last'.result = "ok"
                => LET shown == last'.context
                   IN  /\ Len(shown) = Len(history[id])
                       /\ \A i \in DOMAIN history[id] :
                           \A j \in DOMAIN history[id] :
                             i < j =>
                               \E k \in DOMAIN shown : \E l \in DOMAIN shown :
                                 /\ k < l
                                 /\ shown[k] = history[id][j]
                                 /\ shown[l] = history[id][i]
      ]_vars

\* C27 witness: the page of a booking with three entries (created, approved,
\* cancelled) lists the cancellation first and the creation last.
C27_Witness ==
    /\ last.op = "booking_detail" /\ last.result = "ok"
    /\ Len(last.context) = 3
    /\ last.context[1].action = "cancelled"
    /\ last.context[3].action = "created"

\* The conflicts listed are the approved bookings of the room that overlap the
\* booking, the booking itself left out, each once.
ConflictsListed(conflicts, id) ==
    /\ Range(conflicts) = ApprovedOverlaps(bookings[id], id)
    /\ Len(conflicts) = Cardinality(Range(conflicts))

\* C29 as stated: the conflicts listed for a pending booking under moderation
\* are all approved bookings of its room that overlap it, without the booking
\* itself, by ascending start time.
C29_Original ==
    [][ \A id \in DOMAIN bookings :
          ( moderate_page("mod", id) /\ last'.result = "ok" )
          => LET conflicts == last'.context
             IN  /\ ConflictsListed(conflicts, id)
                 /\ \A i \in DOMAIN conflicts : \A j \in DOMAIN conflicts :
                       i < j => bookings[conflicts[i]].start_time
                                  <= bookings[conflicts[j]].start_time
      ]_vars

\* C29 as amended: the conflicts listed for a pending booking under moderation
\* are all approved bookings of its room that overlap it, without the booking
\* itself, by descending start time (the latest first).
C29_ConflictsLatestFirst ==
    [][ \A id \in DOMAIN bookings :
          ( moderate_page("mod", id) /\ last'.result = "ok" )
          => LET conflicts == last'.context
             IN  /\ ConflictsListed(conflicts, id)
                 /\ \A i \in DOMAIN conflicts : \A j \in DOMAIN conflicts :
                       i < j => bookings[conflicts[i]].start_time
                                  >= bookings[conflicts[j]].start_time
      ]_vars

\* C29 witness: the page of a pending booking lists two conflicts, the one
\* that starts later first, while the room has another booking that is not
\* approved.
C29_Witness ==
    /\ last.op = "moderate_page" /\ last.result = "ok"
    /\ Len(last.context) = 2
    /\ bookings[last.context[1]].start_time
         > bookings[last.context[2]].start_time
    /\ bookings[last.id].status = "pending"

\* The history entries of booking id written by a moderation.
Moderations(id) ==
    {i \in DOMAIN history[id] : history[id][i].action \in {"approve", "reject"}}

\* C34: a rejected booking has a moderation comment; an approved or rejected
\* booking has the user who moderated it as its moderator; a booking that was
\* never moderated has no moderator and no moderation comment.
C34_ModerationFields ==
    \A id \in DOMAIN bookings :
        LET b == bookings[id]
        IN  /\ b.status = "rejected" => b.moderation_comment # ""
            /\ b.status \in {"approved", "rejected"}
                 => /\ b.moderated_by # None
                    /\ User[b.moderated_by] = "moderator"
                    /\ \E i \in Moderations(id) :
                          /\ history[id][i].user = b.moderated_by
                          /\ moderated_status(history[id][i].action) = b.status
            /\ Moderations(id) = {}
                 => /\ b.status \in {"pending", "cancelled"}
                    /\ b.moderated_by = None
                    /\ b.moderation_comment = ""

\* C34 witness: one booking is rejected, another was cancelled while pending.
C34_Witness ==
    \E id \in DOMAIN bookings : \E other \in DOMAIN bookings :
        /\ bookings[id].status = "rejected"
        /\ bookings[other].status = "cancelled"
        /\ Moderations(other) = {}

\* The number of the lists of the timeline tl that hold booking id.
Appearances(tl, id) ==
    Cardinality({<<i, room>> \in (DOMAIN tl) \X ActiveRooms :
                    id \in Range(tl[i].data[room])})

\* C37: every approved booking that starts on the selected date, of the room
\* asked for when one is given, is in exactly one bucket of the timeline,
\* whatever its hour and whether its room is active or not.
C37_TimelineComplete ==
    [][ \A d \in {0, 1}, room_id \in {0} \cup RoomIds :
          schedule("emp", d, room_id)
          => \A id \in DOMAIN bookings :
                ( /\ bookings[id].status = "approved"
                  /\ date(bookings[id].start_time) = d
                  /\ room_id \in {0, bookings[id].room} )
                => Appearances(last'.context.timeline, id) = 1
      ]_vars

\* C31: a booking written as cancelled is never overwritten to approved or
\* rejected, and a rejected one never to cancelled, however a cancel and a
\* moderation of the booking interleave.
C31_ClosedStatusNotOverwritten ==
    [][ \A id \in DOMAIN bookings \cap DOMAIN bookings' :
          /\ bookings[id].status = "cancelled"
               => bookings'[id].status \notin {"approved", "rejected"}
          /\ bookings[id].status = "rejected"
               => bookings'[id].status # "cancelled"
      ]_vars

\* The history entries of booking id with the given action.
EntriesWithAction(id, actions) ==
    {i \in DOMAIN history[id] : history[id][i].action \in actions}

\* C32: however duplicate or competing requests on a booking interleave, its
\* history has at most one 'cancelled' entry and at most one moderation entry.
C32_OneEntryPerStatusChange ==
    \A id \in DOMAIN bookings :
        /\ Cardinality(EntriesWithAction(id, {"cancelled"})) <= 1
        /\ Cardinality(EntriesWithAction(id, {"approve", "reject"})) <= 1

\* The comments a moderation is sent with.
Comments == {"", "no projector"}

\* C33: a status changes to approved or rejected only by a moderation request
\* of a moderator, to cancelled only by a cancel request of the booking's own
\* requester, whose role is requester, and a booking is created only for a user
\* whose role is requester; a moderation by a user who is no moderator, a
\* cancel by a user who is no requester or not the booking's requester and a
\* create by a user who is no requester change no booking and no history.
C33_OnlyAuthorisedUsersWrite ==
    [][ /\ \A id \in DOMAIN bookings \cap DOMAIN bookings' :
             bookings'[id].status # bookings[id].status
             => \/ /\ bookings'[id].status \in {"approved", "rejected"}
                   /\ \E user \in Users, comment \in Comments :
                         /\ User[user] = "moderator"
                         /\ moderate_booking(user, id,
                               IF bookings'[id].status = "approved"
                               THEN "approve" ELSE "reject", comment)
                \/ /\ bookings'[id].status = "cancelled"
                   /\ User[bookings[id].requester] = "requester"
                   /\ cancel_booking(bookings[id].requester, id)
        /\ \A id \in DOMAIN bookings' \ DOMAIN bookings :
             /\ User[bookings'[id].requester] = "requester"
             /\ \E slot \in DeskSlots :
                   create_booking(bookings'[id].requester, slot.room,
                                  slot.start_time, slot.end_time)
        /\ \A user \in Users :
             /\ ( /\ User[user] # "moderator"
                  /\ \E id \in 1..MaxBookings, comment \in Comments :
                        \/ moderate_booking(user, id, "approve", comment)
                        \/ moderate_booking(user, id, "reject", comment) )
                => UNCHANGED <<bookings, history, next_id>>
             /\ \A id \in DOMAIN bookings :
                  ( /\ User[user] # "requester" \/ user # bookings[id].requester
                    /\ cancel_booking(user, id) )
                  => UNCHANGED <<bookings, history, next_id>>
             /\ ( /\ User[user] # "requester"
                  /\ \E slot \in DeskSlots :
                        create_booking(user, slot.room, slot.start_time,
                                       slot.end_time) )
                => UNCHANGED <<bookings, history, next_id>>
      ]_vars

\* C33 witness: a moderation request of a user who is no moderator was refused
\* and the booking is still pending, while another booking of the room was
\* cancelled by its requester after a moderator had approved it.
C33_Witness ==
    /\ last.op \in {"approve", "reject"}
    /\ last.result = "Forbidden"
    /\ last.id \in DOMAIN bookings
    /\ bookings[last.id].status = "pending"
    /\ \E id \in DOMAIN bookings :
          /\ bookings[id].status = "cancelled"
          /\ bookings[id].moderated_by = "mod"

\* C35: check_availability agrees with create: it reports a room available for
\* an interval exactly when a create request for that room and interval, made
\* in the same state at the same time, passes every check.
C35_AvailabilityAgreesWithCreate ==
    [][ \A p \in DeskProbes :
          check_availability("alice", p[1], p[2][1], p[2][2])
          => /\ last'.result = "available"
                  => create_result(p[1], p[2][1], p[2][2]) = "ok"
             /\ last'.result = "unavailable"
                  => create_result(p[1], p[2][1], p[2][2]) # "ok"
      ]_vars

\* The bookings of the room of booking b, other than id, that overlap it.
Overlapping(b, id) ==
    {other \in DOMAIN bookings \ {id} :
        /\ bookings[other].room = b.room
        /\ RefOverlap(bookings[other].start_time, bookings[other].end_time,
                      b.start_time, b.end_time)}

\* C36: rejection and cancellation release the slot. A create by a requester,
\* for an active room and an interval that passes the rules of the time window
\* and overlaps only rejected or cancelled bookings of the room, succeeds; an
\* approve of a pending booking that has not started and overlaps only
\* rejected, cancelled or pending bookings succeeds.
C36_SlotReleased ==
    [][ /\ \A slot \in DeskSlots :
             LET b == NewBooking("alice", slot.room, slot.start_time,
                                 slot.end_time)
             IN  ( /\ create_booking("alice", slot.room, slot.start_time,
                                     slot.end_time)
                   /\ slot.room \in ActiveRooms
                   /\ FirstFailure(<<1, 2, 3, 4, 5, 6, 7>>, slot.start_time,
                                   slot.end_time, now) = "none"
                   /\ Overlapping(b, 0) # {}
                   /\ \A other \in Overlapping(b, 0) :
                         bookings[other].status \in {"rejected", "cancelled"} )
                 => /\ last'.result = "ok"
                    /\ bookings' = (next_id :> b) @@ bookings
        /\ \A id \in DOMAIN bookings :
             ( /\ moderate_booking("mod", id, "approve", "")
               /\ bookings[id].status = "pending"
               /\ bookings[id].start_time >= now
               /\ \E other \in Overlapping(bookings[id], id) :
                     /\ bookings[other].status = "cancelled"
                     /\ bookings[other].moderated_by # None
               /\ \A other \in Overlapping(bookings[id], id) :
                     bookings[other].status # "approved" )
             => /\ last'.result = "ok"
                /\ bookings'[id].status = "approved"
      ]_vars

\* C36 witness: a pending booking has been approved after the approved booking
\* it overlapped was cancelled.
C36_Witness ==
    /\ last.op = "approve" /\ last.result = "ok"
    /\ bookings[last.id].status = "approved"
    /\ \E other \in Overlapping(bookings[last.id], last.id) :
          /\ bookings[other].status = "cancelled"
          /\ \E i \in DOMAIN history[other] :
                /\ history[other][i].action = "cancelled"
                /\ history[other][i].details.old_status = "approved"

\* C1: of two concurrent approvals of overlapping pending bookings of one
\* room at most one succeeds: no two approved bookings of a room overlap.
C1_NoTwoOverlappingApproved ==
    \A a \in DOMAIN bookings : \A b \in DOMAIN bookings :
        ( /\ a # b
          /\ bookings[a].room = bookings[b].room
          /\ bookings[a].status = "approved"
          /\ bookings[b].status = "approved" )
        => ~RefOverlap(bookings[a].start_time, bookings[a].end_time,
                       bookings[b].start_time, bookings[b].end_time)

\* C3: of two concurrent create requests for overlapping intervals of one room
\* at most one is persisted: no two bookings of a room that were both accepted
\* by create and not yet moderated or cancelled overlap.
C3_NoTwoOverlappingPending ==
    \A a \in DOMAIN bookings : \A b \in DOMAIN bookings :
        ( /\ a # b
          /\ bookings[a].room = bookings[b].room
          /\ bookings[a].status = "pending"
          /\ bookings[b].status = "pending" )
        => ~RefOverlap(bookings[a].start_time, bookings[a].end_time,
                       bookings[b].start_time, bookings[b].end_time)

====
